---- MODULE Spec2Model ----
(***************************************************************************)
(* Model of config_loader.py: lambda_handler (validation, configuration    *)
(* merge, run-scoped path rewrite, checkpoint resume, workflow dispatch)   *)
(* and the module-level functions creating_step_arn, creating_survey_arn,  *)
(* create_queue and set_checkpoint_start_file.                             *)
(*                                                                         *)
(* Python strings are TLA+ strings.  A JSON value whose Python type        *)
(* matters is a tagged record [t, v]: JStr("a"), JInt(1), JList(<<..>>),   *)
(* JDict(<<..>>) and JNone.  A top-level mapping (os.environ, event, the   *)
(* configuration document) is a function from key names to values.  The    *)
(* file_names mapping, whose key order the code depends on, is a JDict: a  *)
(* sequence of entries [k, v] in insertion order with distinct keys.       *)
(***************************************************************************)
EXTENDS Integers, Sequences, FiniteSets, TLC

\* ------------------------------------------------------------------ bounds
\* Longest file_names mapping that is enumerated.
MaxFiles == 3
\* Invocations of lambda_handler in one behaviour (a first call and retries).
MaxInvocations == 2

\* ------------------------------------------------- program constants
\* random.randint(1000, 9999)
RandLo == 1000
RandHi == 9999

\* ------------------------------------------------------------------ values
JStr(s) == [t |-> "str", v |-> s]
JInt(n) == [t |-> "int", v |-> n]
JList(l) == [t |-> "list", v |-> l]
JDict(entries) == [t |-> "dict", v |-> entries]
JNone == [t |-> "none", v |-> 0]

\* Python dict operations on the entries of a Dict.
Keys(entries) == [i \in 1..Len(entries) |-> entries[i].k]
HasKey(entries, key) == \E i \in 1..Len(entries) : entries[i].k = key
Get(entries, key) == entries[CHOOSE i \in 1..Len(entries) : entries[i].k = key].v
\* d[key] = val: replaces in place, a new key goes last.
Put(entries, key, val) ==
    IF HasKey(entries, key)
    THEN [i \in 1..Len(entries) |->
            IF entries[i].k = key THEN [k |-> key, v |-> val] ELSE entries[i]]
    ELSE Append(entries, [k |-> key, v |-> val])

\* {**a, **b}
MergeWrong(a, b) ==
    [key \in DOMAIN a \cup DOMAIN b |-> IF key \in DOMAIN a THEN a[key] ELSE b[key]]
Merge(a, b) ==
    [key \in DOMAIN a \cup DOMAIN b |-> IF key \in DOMAIN b THEN b[key] ELSE a[key]]

\* a mapping with one key set (d[key] = val)
With(d, key, val) ==
    [x \in DOMAIN d \cup {key} |-> IF x = key THEN val ELSE d[x]]

\* ------------------------------------------------------------ str methods
\* sub in s
Contains(s, sub) ==
    \E i \in 1..(Len(s) - Len(sub) + 1) : SubSeq(s, i, i + Len(sub) - 1) = sub

\* s.replace(old, new), old not empty
RECURSIVE Replace(_, _, _)
Replace(s, old, new) ==
    IF Len(s) < Len(old) THEN s
    ELSE IF SubSeq(s, 1, Len(old)) = old
         THEN new \o Replace(SubSeq(s, Len(old) + 1, Len(s)), old, new)
         ELSE SubSeq(s, 1, 1) \o Replace(SubSeq(s, 2, Len(s)), old, new)

\* s.split(sep)[-1], sep one character
RECURSIVE SplitLast(_, _)
SplitLast(s, sep) ==
    IF Len(s) = 0 THEN ""
    ELSE IF SubSeq(s, Len(s), Len(s)) = sep THEN ""
    ELSE SplitLast(SubSeq(s, 1, Len(s) - 1), sep) \o SubSeq(s, Len(s), Len(s))

\* str(n), n >= 0
RECURSIVE IntToStr(_)
IntToStr(n) ==
    IF n < 10 THEN SubSeq("0123456789", n + 1, n + 1)
    ELSE IntToStr(n \div 10) \o SubSeq("0123456789", (n % 10) + 1, (n % 10) + 1)

\* str(x) of a string or an integer
PyStr(x) == IF x.t = "int" THEN IntToStr(x.v) ELSE x.v

\* ------------------------------------------------ set_checkpoint_start_file
\* The loop over config['file_names']: the value of `file` when it ends.
RECURSIVE CheckpointTarget(_, _, _, _)
CheckpointTarget(keys, i, last_file_name, checkpoint_id) ==
    IF i > Len(keys) THEN ""
    ELSE LET filename == keys[i]
             last == IF last_file_name = "" THEN filename ELSE last_file_name
         IN  IF Contains(filename, checkpoint_id) THEN last
             ELSE CheckpointTarget(keys, i + 1, filename, checkpoint_id)

\* A variant that always overwrites the matching key itself.
set_checkpoint_start_file_same(checkpoint_file, checkpoint_id, config) ==
    LET names == config["file_names"].v
        hits == {i \in 1..Len(names) : Contains(names[i].k, PyStr(checkpoint_id))}
        file == IF hits = {} THEN ""
                ELSE names[CHOOSE i \in hits : \A j \in hits : i <= j].k
    IN  IF Len(names) > 0 /\ checkpoint_id.t # "str"
        THEN [ok |-> FALSE, error |-> "TypeError"]
        ELSE IF checkpoint_file # JNone /\ checkpoint_file # JStr("")
        THEN [ok |-> TRUE,
              config |-> With(config, "file_names",
                              JDict(Put(names, file, checkpoint_file)))]
        ELSE [ok |-> TRUE, config |-> config]

\* set_checkpoint_start_file(checkpoint_file, checkpoint_id, config): the
\* returned config, or the exception it raises (`checkpoint_id in filename`
\* is a TypeError unless checkpoint_id is a string).
set_checkpoint_start_file(checkpoint_file, checkpoint_id, config) ==
    LET names == config["file_names"].v
        file == CheckpointTarget(Keys(names), 1, "", checkpoint_id.v)
    IN  IF Len(names) > 0 /\ checkpoint_id.t # "str"
        THEN [ok |-> FALSE, error |-> "TypeError"]
        ELSE IF checkpoint_file # JNone /\ checkpoint_file # JStr("")
        THEN [ok |-> TRUE,
              config |-> With(config, "file_names",
                              JDict(Put(names, file, checkpoint_file)))]
        ELSE [ok |-> TRUE, config |-> config]

\* --------------------------------------------------------- lambda_handler
\* EnvironmentSchema: every field is required; unknown = EXCLUDE.
EnvironmentRequired ==
    {"bucket_name", "config_suffix", "file_path", "payload_reference_name",
     "step_function_arn", "survey_arn_prefix", "survey_arn_suffix"}

\* RuntimeSchema with `period` left optional.
RuntimeRequiredNoPeriod == {"checkpoint", "run_id", "survey"}
\* RuntimeSchema: the required fields and all declared fields (fields.Str);
\* unknown = INCLUDE.
RuntimeRequired == {"checkpoint", "period", "run_id", "survey"}
RuntimeDeclared == {"checkpoint", "checkpoint_file", "period", "run_id", "survey"}

\* EnvironmentSchema().load(os.environ): os.environ holds strings only, so
\* the load fails exactly when a required field is absent.
EnvironmentSchemaLoad(env) ==
    IF EnvironmentRequired \subseteq DOMAIN env
    THEN [ok |-> TRUE, value |-> [f \in EnvironmentRequired |-> env[f]]]
    ELSE [ok |-> FALSE, error |-> "ValueError"]

\* RuntimeSchema().load(event): required fields present, declared fields
\* strings; unknown fields are kept.
RuntimeSchemaLoad(ev) ==
    IF /\ RuntimeRequired \subseteq DOMAIN ev
       /\ \A f \in RuntimeDeclared \cap DOMAIN ev : ev[f].t = "str"
    THEN [ok |-> TRUE, value |-> ev]
    ELSE [ok |-> FALSE, error |-> "ValueError"]

\* The fields lines 68-75 read from environment_variables.
EnvironmentRead ==
    {"bucket_name", "config_suffix", "file_path", "payload_reference_name",
     "step_function_arn", "survey_arn_prefix", "survey_arn_suffix"}

\* Lines 62-82: run_id, both loads, the reads of environment_variables, the
\* survey lookup and the namespaced run_id written back into
\* runtime_variables.
ValidateOutcome(env, ev) ==
    IF "run_id" \notin DOMAIN ev THEN [ok |-> FALSE, error |-> "KeyError"]
    ELSE LET e == EnvironmentSchemaLoad(env)
             r == RuntimeSchemaLoad(ev)
         IN  IF ~e.ok THEN e
             ELSE IF ~r.ok THEN r
             ELSE IF ~(EnvironmentRead \subseteq DOMAIN e.value)
                  THEN [ok |-> FALSE, error |-> "KeyError"]
             ELSE IF e.value["payload_reference_name"] \notin DOMAIN r.value
                  THEN [ok |-> FALSE, error |-> "KeyError"]
             ELSE LET sv == r.value[e.value["payload_reference_name"]]
                      rid == PyStr(sv) \o "-" \o PyStr(ev["run_id"])
                  IN  [ok |-> TRUE,
                       environment_variables |-> e.value,
                       survey |-> sv.v,
                       folder_id |-> ev["run_id"].v,
                       run_id |-> rid,
                       runtime_variables |-> With(r.value, "run_id", JStr(rid))]

\* full_location without the closing separator.
FullLocationNoSlash(loc, folder) == loc \o "/" \o folder
\* full_location = location + "/" + folder_id + "/"
FullLocation(loc, folder) == loc \o "/" \o folder \o "/"

\* The rewrite that leaves list values as they are.
RewriteValueStringsOnly(full_location, val) ==
    IF val.t = "list" THEN val ELSE JStr(full_location \o val.v)
\* One file_names value after the loop body of lines 99-107.
RewriteValue(full_location, val) ==
    IF val.t = "list"
    THEN JList([i \in 1..Len(val.v) |-> JStr(full_location \o val.v[i].v)])
    ELSE JStr(full_location \o val.v)

\* full_location + y raises TypeError unless y is a string.
Rewritable(val) ==
    IF val.t = "list" THEN \A i \in 1..Len(val.v) : val.v[i].t = "str"
    ELSE val.t = "str"

\* Lines 92-107 on the merged document.
SetFilePaths(doc, folder) ==
    IF "location" \notin DOMAIN doc THEN [ok |-> FALSE, error |-> "KeyError"]
    ELSE IF doc["location"].t # "str" THEN [ok |-> FALSE, error |-> "TypeError"]
    ELSE IF "file_names" \notin DOMAIN doc THEN [ok |-> FALSE, error |-> "KeyError"]
    ELSE IF doc["file_names"].t # "dict" THEN [ok |-> FALSE, error |-> "AttributeError"]
    ELSE LET loc == doc["location"].v
             full == FullLocation(loc, folder)
             names == doc["file_names"].v
         IN  IF \E i \in 1..Len(names) : ~Rewritable(names[i].v)
             THEN [ok |-> FALSE, error |-> "TypeError"]
             ELSE [ok |-> TRUE,
                   location |-> loc,
                   config |->
                     [key \in DOMAIN doc \cup {"final_output_location"} |->
                        CASE key = "final_output_location" ->
                               JStr(loc \o "/0-latest/disclosure_out")
                          [] key = "location" -> JStr(full)
                          [] key = "file_names" ->
                               JDict([i \in 1..Len(names) |->
                                        [k |-> names[i].k,
                                         v |-> RewriteValue(full, names[i].v)]])
                          [] OTHER -> doc[key]]]

\* creating_step_arn(arn_segment), account_id being what STS answered.
creating_step_arn(arn_segment, account_id) ==
    Replace(arn_segment, "#{AWS::AccountId}", account_id)

\* creating_survey_arn(arn_segment, survey, prefix, suffix)
creating_survey_arn(arn_segment, sv, prefix, suffix) ==
    arn_segment \o prefix \o sv \o suffix

\* name=run_id + "-" + str(random.randint(1000, 9999))
ExecutionName(rid, r) == rid \o "-" \o IntToStr(r)

\* The condition of the finally block, inverted.
RaisesInverted(error_message) == Len(error_message) < 0
\* The finally block raises LambdaFailure when (len(error_message)) > 0.
Raises(error_message) == Len(error_message) > 0

\* general_functions.handle_exception(e, current_module, run_id, context):
\* a message naming the exception and the module.
handle_exception(exc, current_module) == exc \o " in " \o current_module

\* create_queue(run_id): the queue requested from SQS and the url returned
\* once time.sleep(0.7) has elapsed.
create_queue(rid) ==
    [QueueName |-> rid \o "-results.fifo",
     queue_url |-> "https://eu-west-2.queue.amazonaws.com/123456789012/"
                     \o rid \o "-results.fifo"]

\* ------------------------------------------------------------------ inputs
EmptyMap == [x \in {} |-> JNone]
Without(d, key) == [x \in DOMAIN d \ {key} |-> d[x]]

\* Ordered mappings of at most n entries with distinct keys.
EntrySeqs(keys, vals, n) ==
    UNION {{s \in [1..m -> [k : keys, v : vals]] :
              \A i, j \in 1..m : i # j => s[i].k # s[j].k} : m \in 0..n}

\* file_names mappings given to set_checkpoint_start_file directly.
UnitFileNames ==
    EntrySeqs({"in", "a1", "b1", "c2", ""},
              {JStr("f.csv"), JList(<<JStr("a"), JStr("b")>>)}, MaxFiles)
UnitCheckpointFiles == {JStr("cp.csv"), JStr(""), JNone}
UnitCheckpointIds ==
    {JInt(n) : n \in 0..5} \cup {JStr("1"), JStr("2"), JStr("9")}

\* file_names mappings of stored configuration documents.
StoredFileNames ==
    EntrySeqs({"in", "a1"},
              {JStr("f.csv"), JList(<<JStr("a"), JStr("b")>>), JInt(7)}, MaxFiles)

StoredDocs ==
    {[location |-> JStr("base"), period |-> JStr("X"), file_names |-> JDict(fn)] :
        fn \in StoredFileNames}
    \cup {[period |-> JStr("X"), file_names |-> JDict(<<>>)],
          [location |-> JStr("base"), period |-> JStr("X")]}

\* What read_from_s3 can answer: a JSON document, bytes that are no JSON, or
\* a storage error.
S3Objects ==
    {[t |-> "json", doc |-> d] : d \in StoredDocs}
    \cup {[t |-> "garbage"], [t |-> "error"]}

BaseEvent(seed, cp) ==
    [checkpoint |-> JStr(cp), period |-> JStr("201809"),
     run_id |-> JStr(seed), survey |-> JStr("BMISG")]

\* The resume requests explored: no checkpoint_file, an empty one, one whose
\* checkpoint matches a stage, one whose checkpoint matches none and one whose
\* checkpoint is the empty string (which every key contains).
Resumes ==
    {[checkpoint |-> JStr("1")],
     [checkpoint |-> JStr("1"), checkpoint_file |-> JStr("")],
     [checkpoint |-> JStr("1"), checkpoint_file |-> JStr("cp.csv")],
     [checkpoint |-> JStr("9"), checkpoint_file |-> JStr("cp.csv")],
     [checkpoint |-> JStr(""), checkpoint_file |-> JStr("cp.csv")]}

\* Fields the schema does not declare, some of them keys of stored documents.
Extras ==
    {EmptyMap,
     [location |-> JStr("rt"),
      file_names |-> JDict(<<[k |-> "z1", v |-> JStr("z.csv")]>>),
      RuntimeVariables |-> JDict(<<>>)]}

ValidEvents ==
    {Merge(Merge(BaseEvent(seed, "1"), resume), extra) :
        seed \in {"01021", "7"}, resume \in Resumes, extra \in Extras}

InvalidEvents ==
    {Without(BaseEvent("01021", "1"), f) :
        f \in {"checkpoint", "period", "run_id", "survey"}}
    \cup {With(BaseEvent("01021", "1"), "period", JInt(201809))}

Events == ValidEvents \cup InvalidEvents

FullEnvironment ==
    [bucket_name |-> "mock-bucket",
     config_suffix |-> "_config.json",
     file_path |-> "configs/",
     payload_reference_name |-> "survey",
     step_function_arn |-> "arn:#{AWS::AccountId}:stateMachine:",
     survey_arn_prefix |-> "ES-",
     survey_arn_suffix |-> "-Results"]

Environments ==
    {FullEnvironment,
     With(FullEnvironment, "payload_reference_name", "team")}
    \cup {Without(FullEnvironment, f) : f \in EnvironmentRequired}

\* What sts get_caller_identity can answer.
AccountResponses == {"123456789012", "error"}

\* The draws of random.randint that are explored.
RandChoices == {RandLo, RandHi}

\* ------------------------------------------------------------------- state
VARIABLES
    pc,                     \* where the current invocation of lambda_handler is
    invocations,            \* invocations of lambda_handler so far
    environ,                \* os.environ
    event,                  \* the event of the current invocation
    run_id, folder_id, survey, environment_variables, runtime_variables,
    config_string, combined_input, location, constructed_arn, sf_response,
    result,                 \* what the invocation returned or raised
    calls,                  \* the external calls of the current invocation
    executions,             \* every start_execution request, all invocations
    queues,                 \* the SQS queues that exist
    pre,                    \* combined_input as the last stage received it
    unit                    \* the last direct call of a module-level function

locals == <<run_id, folder_id, survey, environment_variables, runtime_variables,
            config_string, combined_input, location, constructed_arn,
            sf_response>>
vars == <<pc, invocations, environ, event, locals, result, calls, executions,
          queues, pre, unit>>

NoCall == [fn |-> "none"]
NoResult == [kind |-> "none"]

Init ==
    /\ pc = "idle"
    /\ invocations = 0
    /\ environ = EmptyMap
    /\ event = EmptyMap
    /\ run_id = JInt(0)
    /\ folder_id = ""
    /\ survey = ""
    /\ environment_variables = EmptyMap
    /\ runtime_variables = EmptyMap
    /\ config_string = [t |-> "none"]
    /\ combined_input = EmptyMap
    /\ location = ""
    /\ constructed_arn = ""
    /\ sf_response = [t |-> "none"]
    /\ result = NoResult
    /\ calls = <<>>
    /\ executions = <<>>
    /\ queues = {}
    /\ pre = EmptyMap
    /\ unit = NoCall

\* The except and finally blocks (lines 126-132): with a message the
\* invocation raises LambdaFailure; with none it falls through to the return
\* statement, where sf_response is unbound.
Raise(exc) ==
    LET error_message == handle_exception(exc, "Config Loader")
    IN  /\ pc' = "failed"
        /\ result' = IF Raises(error_message)
                     THEN [kind |-> "raised", exception |-> "LambdaFailure",
                           message |-> error_message]
                     ELSE [kind |-> "raised", exception |-> "UnboundLocalError",
                           message |-> ""]

\* lambda_handler is invoked (lines 44-57).
Invoke ==
    /\ pc \in {"idle", "done", "failed"}
    /\ unit = NoCall
    /\ invocations < MaxInvocations
    /\ \E env \in Environments, ev \in Events :
          /\ environ' = env
          /\ event' = ev
    /\ invocations' = invocations + 1
    /\ pc' = "start"
    /\ run_id' = JInt(0)
    /\ folder_id' = ""
    /\ survey' = ""
    /\ environment_variables' = EmptyMap
    /\ runtime_variables' = EmptyMap
    /\ config_string' = [t |-> "none"]
    /\ combined_input' = EmptyMap
    /\ location' = ""
    /\ constructed_arn' = ""
    /\ sf_response' = [t |-> "none"]
    /\ result' = NoResult
    /\ calls' = <<>>
    /\ pre' = EmptyMap
    /\ UNCHANGED <<executions, queues, unit>>

\* Lines 62-82.
Validate ==
    /\ pc = "start"
    /\ LET o == ValidateOutcome(environ, event)
       IN  IF o.ok
           THEN /\ pc' = "validated"
                /\ run_id' = JStr(o.run_id)
                /\ folder_id' = o.folder_id
                /\ survey' = o.survey
                /\ environment_variables' = o.environment_variables
                /\ runtime_variables' = o.runtime_variables
                /\ UNCHANGED result
           ELSE /\ Raise(o.error)
                /\ run_id' = IF "run_id" \in DOMAIN event THEN event["run_id"]
                             ELSE run_id
                /\ UNCHANGED <<folder_id, survey, environment_variables,
                               runtime_variables>>
    /\ UNCHANGED <<invocations, environ, event, config_string, combined_input,
                   location, constructed_arn, sf_response, calls, executions,
                   queues, pre, unit>>

\* Lines 85-88: aws_functions.read_from_s3(bucket_name, config_file_name).
ReadConfig ==
    /\ pc = "validated"
    /\ \E obj \in S3Objects :
          /\ calls' = Append(calls,
                [op |-> "read_from_s3",
                 bucket_name |-> environment_variables["bucket_name"],
                 key |-> environment_variables["file_path"] \o survey
                           \o environment_variables["config_suffix"]])
          /\ IF obj.t = "error"
             THEN Raise("ClientError") /\ UNCHANGED config_string
             ELSE /\ pc' = "read"
                  /\ config_string' = obj
                  /\ UNCHANGED result
    /\ UNCHANGED <<invocations, environ, event, run_id, folder_id, survey,
                   environment_variables, runtime_variables, combined_input,
                   location, constructed_arn, sf_response, executions, queues,
                   pre, unit>>

\* Line 89: combined_input = {**json.loads(config_string), **runtime_variables}
MergeConfig ==
    /\ pc = "read"
    /\ IF config_string.t = "json"
       THEN /\ pc' = "merged"
            /\ combined_input' = Merge(config_string.doc, runtime_variables)
            /\ UNCHANGED result
       ELSE Raise("JSONDecodeError") /\ UNCHANGED combined_input
    /\ UNCHANGED <<invocations, environ, event, run_id, folder_id, survey,
                   environment_variables, runtime_variables, config_string,
                   location, constructed_arn, sf_response, calls, executions,
                   queues, pre, unit>>

\* Lines 92-107: location, final_output_location and the file_names loop.
RewritePaths ==
    /\ pc = "merged"
    /\ LET o == SetFilePaths(combined_input, folder_id)
       IN  IF o.ok
           THEN /\ pc' = "rewritten"
                /\ location' = o.location
                /\ combined_input' = o.config
                /\ UNCHANGED result
           ELSE Raise(o.error) /\ UNCHANGED <<location, combined_input>>
    /\ pre' = combined_input
    /\ UNCHANGED <<invocations, environ, event, run_id, folder_id, survey,
                   environment_variables, runtime_variables, config_string,
                   constructed_arn, sf_response, calls, executions, queues,
                   unit>>

\* Lines 110-113: creating_step_arn asks STS for the account, then
\* creating_survey_arn.
BuildArn ==
    /\ pc = "rewritten"
    /\ \E account \in AccountResponses :
          /\ calls' = Append(calls, [op |-> "get_caller_identity"])
          /\ IF account = "error"
             THEN Raise("ClientError") /\ UNCHANGED constructed_arn
             ELSE /\ pc' = "arn"
                  /\ constructed_arn' =
                       creating_survey_arn(
                           creating_step_arn(
                               environment_variables["step_function_arn"], account),
                           survey,
                           environment_variables["survey_arn_prefix"],
                           environment_variables["survey_arn_suffix"])
                  /\ UNCHANGED result
    /\ UNCHANGED <<invocations, environ, event, run_id, folder_id, survey,
                   environment_variables, runtime_variables, config_string,
                   combined_input, location, sf_response, executions, queues,
                   pre, unit>>

\* Lines 116-119.
ResolveCheckpoint ==
    /\ pc = "arn"
    /\ IF "checkpoint_file" \in DOMAIN combined_input
       THEN LET o == set_checkpoint_start_file(combined_input["checkpoint_file"],
                                               combined_input["checkpoint"],
                                               combined_input)
            IN  IF o.ok
                THEN /\ pc' = "resolved"
                     /\ combined_input' = o.config
                     /\ UNCHANGED result
                ELSE Raise(o.error) /\ UNCHANGED combined_input
       ELSE /\ pc' = "resolved"
            /\ UNCHANGED <<combined_input, result>>
    /\ pre' = combined_input
    /\ UNCHANGED <<invocations, environ, event, run_id, folder_id, survey,
                   environment_variables, runtime_variables, config_string,
                   location, constructed_arn, sf_response, calls, executions,
                   queues, unit>>

\* Lines 121-124: client.start_execution, which answers or raises.
StartExecution ==
    /\ pc = "resolved"
    /\ \E r \in RandChoices, answered \in BOOLEAN :
          LET name == ExecutionName(run_id.v, r)
          IN  /\ calls' = Append(calls,
                    [op |-> "start_execution",
                     stateMachineArn |-> constructed_arn,
                     name |-> name,
                     input |-> combined_input,
                     answered |-> answered])
              /\ executions' = Append(executions,
                    [survey |-> survey, seed |-> folder_id, name |-> name])
              /\ IF answered
                 THEN /\ pc' = "started"
                      /\ sf_response' =
                           [executionArn |-> constructed_arn \o ":" \o name]
                      /\ UNCHANGED result
                 ELSE Raise("ClientError") /\ UNCHANGED sf_response
    /\ UNCHANGED <<invocations, environ, event, run_id, folder_id, survey,
                   environment_variables, runtime_variables, config_string,
                   combined_input, location, constructed_arn, queues, pre, unit>>

\* Lines 134-138.
Return ==
    /\ pc = "started"
    /\ pc' = "done"
    /\ result' = [kind |-> "returned",
                  execution_id |-> SplitLast(sf_response.executionArn, ":")]
    /\ UNCHANGED <<invocations, environ, event, locals, calls, executions,
                   queues, pre, unit>>

\* create_queue(run_id) called on its own, as the tests call it.
CallCreateQueue ==
    /\ pc = "idle"
    /\ unit = NoCall
    /\ \E rid \in {"BMISG-01021"} :
          queues' = queues \cup {create_queue(rid)}
    /\ UNCHANGED <<pc, invocations, environ, event, locals, result, calls,
                   executions, pre, unit>>

\* set_checkpoint_start_file(checkpoint_file, checkpoint_id, config) called
\* on its own, as the tests call it; `unit` records the call and its outcome.
CallSetCheckpointStartFile ==
    /\ pc = "idle"
    /\ unit = NoCall
    /\ \E f \in UnitCheckpointFiles, id \in UnitCheckpointIds,
          fn \in UnitFileNames :
          LET config == [file_names |-> JDict(fn)]
          IN  unit' = [fn |-> "set_checkpoint_start_file",
                       checkpoint_file |-> f, checkpoint_id |-> id,
                       config |-> config,
                       result |-> set_checkpoint_start_file(f, id, config)]
    /\ UNCHANGED <<pc, invocations, environ, event, locals, result, calls,
                   executions, queues, pre>>

Next ==
    \/ Invoke
    \/ Validate
    \/ ReadConfig
    \/ MergeConfig
    \/ RewritePaths
    \/ BuildArn
    \/ ResolveCheckpoint
    \/ StartExecution
    \/ Return
    \/ CallCreateQueue
    \/ CallSetCheckpointStartFile

Spec == Init /\ [][Next]_vars

\* ------------------------------------------------------------------ claims
StartCalls == {i \in DOMAIN calls : calls[i].op = "start_execution"}

\* C1: after the path-rewrite loop every file_names entry is prefixed with the
\* run scope written to 'location': a string v becomes scope + v, a list
\* becomes the list of scope + element in the same order and length, and the
\* keys are the same keys in the same order.
C1_AllPrefixed ==
    pc = "rewritten" =>
        LET before == pre["file_names"].v
            after == combined_input["file_names"].v
            scope == combined_input["location"].v
        IN  /\ Keys(after) = Keys(before)
            /\ \A i \in 1..Len(before) :
                  IF before[i].v.t = "list"
                  THEN /\ after[i].v.t = "list"
                       /\ Len(after[i].v.v) = Len(before[i].v.v)
                       /\ \A j \in 1..Len(before[i].v.v) :
                             after[i].v.v[j] = JStr(scope \o before[i].v.v[j].v)
                  ELSE after[i].v = JStr(scope \o before[i].v.v)

\* C1 witness: the loop has rewritten a document holding both a string entry
\* and a list entry.
C1_Witness ==
    /\ pc = "rewritten"
    /\ Len(pre["file_names"].v) = 2
    /\ pre["file_names"].v[1].v = JStr("f.csv")
    /\ pre["file_names"].v[2].v.t = "list"
    /\ combined_input["file_names"].v[1].v = JStr("base/01021/f.csv")

\* C2 as stated: the payload's location is the merged location, "/", the
\* run_id of the payload's own run_id field, "/".
C2_LocationUsesPayloadRunId ==
    \A i \in StartCalls :
        calls[i].input["location"] =
            JStr(location \o "/" \o calls[i].input["run_id"].v \o "/")

\* C2 amended: the payload's location is the merged location, "/", the run_id
\* the caller supplied in the event, "/", while the payload's run_id field is
\* survey + "-" + that run_id.
C2_LocationUsesSeed ==
    \A i \in StartCalls :
        /\ calls[i].input["location"] =
               JStr(location \o "/" \o event["run_id"].v \o "/")
        /\ calls[i].input["run_id"] =
               JStr(event["survey"].v \o "-" \o event["run_id"].v)

\* C2 witness: stored location "base", survey "BMISG" and run_id "01021" have
\* been dispatched with location "base/01021/".
C2_Witness ==
    /\ pc = "started"
    /\ location = "base"
    /\ event["run_id"] = JStr("01021")
    /\ \E i \in StartCalls :
          /\ calls[i].input["location"] = JStr("base/01021/")
          /\ calls[i].input["run_id"] = JStr("BMISG-01021")

\* C3 as stated: whenever start_execution has been called, the queue named
\* run_id + "-results.fifo" exists.
C3_QueueBeforeStart ==
    \A i \in StartCalls :
        \E q \in queues : q.QueueName = run_id.v \o "-results.fifo"

\* C4 as stated: two start_execution requests for the same survey and the same
\* run_id seed never carry the same execution name.
C4_NamesDiffer ==
    \A i, j \in DOMAIN executions :
        (/\ i # j
         /\ executions[i].survey = executions[j].survey
         /\ executions[i].seed = executions[j].seed)
        => executions[i].name # executions[j].name

\* The applications of set_checkpoint_start_file that have happened: the
\* direct call recorded in unit, and the call lambda_handler made.
Applications ==
    (IF unit.fn = "set_checkpoint_start_file"
     THEN {[checkpoint_file |-> unit.checkpoint_file,
            checkpoint_id |-> unit.checkpoint_id,
            config |-> unit.config, result |-> unit.result]}
     ELSE {})
    \cup
    (IF pc = "resolved" /\ "checkpoint_file" \in DOMAIN pre
     THEN {[checkpoint_file |-> pre["checkpoint_file"],
            checkpoint_id |-> pre["checkpoint"],
            config |-> pre,
            result |-> [ok |-> TRUE, config |-> combined_input]]}
     ELSE {})

Matches(a) ==
    {i \in 1..Len(a.config["file_names"].v) :
        a.checkpoint_id.t = "str"
        /\ Contains(a.config["file_names"].v[i].k, a.checkpoint_id.v)}
FirstMatch(a) == CHOOSE i \in Matches(a) : \A j \in Matches(a) : i <= j
NonEmptyFile(a) == a.checkpoint_file.t = "str" /\ a.checkpoint_file.v # ""

\* The returned config is the given one with entry i of file_names set to the
\* checkpoint file, nothing else changed.
OnlyEntrySet(a, i) ==
    /\ a.result.ok
    /\ DOMAIN a.result.config = DOMAIN a.config
    /\ \A key \in DOMAIN a.config \ {"file_names"} :
          a.result.config[key] = a.config[key]
    /\ a.result.config["file_names"] =
          JDict([a.config["file_names"].v EXCEPT ![i].v = a.checkpoint_file])

\* C5 as stated: with a non-empty checkpoint_file and a matching
\* checkpoint_id, the entry of the stage before the first matching key is set
\* to checkpoint_file and nothing else changes.
C5_PrecedingEntrySet ==
    \A a \in Applications :
        (NonEmptyFile(a) /\ Matches(a) # {})
        => (FirstMatch(a) > 1 /\ OnlyEntrySet(a, FirstMatch(a) - 1))

\* C5 amended: the entry set is the one before the first matching key, or the
\* first matching key's own entry when that key is the first key of file_names
\* or the key before it is the empty string; it is set to checkpoint_file
\* verbatim and every other entry and the key set are unchanged.
C5_PrecedingOrFirstEntrySet ==
    \A a \in Applications :
        (NonEmptyFile(a) /\ Matches(a) # {})
        => LET m == FirstMatch(a)
               names == a.config["file_names"].v
           IN  OnlyEntrySet(a, IF m = 1 \/ names[m - 1].k = "" THEN m ELSE m - 1)

\* C5 witness: a direct call where the second key matched and the first
\* entry, and only it, became the checkpoint file.
C5_Witness ==
    /\ unit.fn = "set_checkpoint_start_file"
    /\ unit.checkpoint_file = JStr("cp.csv")
    /\ unit.checkpoint_id = JStr("1")
    /\ Keys(unit.config["file_names"].v) = <<"in", "a1", "b1">>
    /\ unit.result.ok
    /\ unit.result.config["file_names"].v[1] = [k |-> "in", v |-> JStr("cp.csv")]
    /\ unit.result.config["file_names"].v[2] = unit.config["file_names"].v[2]

\* The ordinal mapping of test_set_checkpoint_start_file.
TestStage(n) ==
    CASE n = 0 -> "input_file"
      [] n = 1 -> "ingest"
      [] n = 2 -> "enrichment"
      [] n = 3 -> "strata"
      [] n = 4 -> "imputation_apply_factors"
      [] n = 5 -> "aggregation_combiner"

\* C6 as stated: for a checkpoint id k in 0..5 and a non-empty checkpoint
\* file f the returned config holds f under the stage the ordinal mapping
\* gives for k.
C6_OrdinalStageSet ==
    (/\ unit.fn = "set_checkpoint_start_file"
     /\ unit.checkpoint_id.t = "int"
     /\ unit.checkpoint_id.v \in 0..5
     /\ unit.checkpoint_file.t = "str"
     /\ unit.checkpoint_file.v # "")
    => /\ unit.result.ok
       /\ HasKey(unit.result.config["file_names"].v, TestStage(unit.checkpoint_id.v))
       /\ Get(unit.result.config["file_names"].v, TestStage(unit.checkpoint_id.v))
             = unit.checkpoint_file

\* C7: after the merge step every key of the validated invocation parameters
\* holds the invocation's value, whole; a key only the stored document has
\* keeps the stored value; unknown invocation keys are in the merged document.
C7_InvocationOverrides ==
    pc = "merged" =>
        LET stored == config_string.doc
        IN  /\ DOMAIN combined_input = DOMAIN stored \cup DOMAIN event
            /\ \A key \in DOMAIN runtime_variables :
                  combined_input[key] = runtime_variables[key]
            /\ \A key \in DOMAIN event \ {"run_id"} :
                  combined_input[key] = event[key]
            /\ \A key \in DOMAIN stored \ DOMAIN event :
                  combined_input[key] = stored[key]

\* C7 witness: the stored document and the invocation both hold period and
\* file_names with different values, and the merge has happened.
C7_Witness ==
    /\ pc = "merged"
    /\ "file_names" \in DOMAIN event
    /\ "file_names" \in DOMAIN config_string.doc
    /\ config_string.doc["file_names"] # event["file_names"]
    /\ Len(config_string.doc["file_names"].v) = 2
    /\ config_string.doc["period"] # event["period"]
    /\ combined_input["file_names"] = event["file_names"]
    /\ combined_input["period"] = JStr("201809")

\* C8, in every state: start_execution is called at most once in an
\* invocation; a result is returned only after that one call was answered;
\* a failed invocation has raised LambdaFailure and returned nothing.
C8_State ==
    /\ Cardinality(StartCalls) <= 1
    /\ (result.kind = "returned") <=> (pc = "done")
    /\ (result.kind = "raised") <=> (pc = "failed")
    /\ pc = "done" =>
          /\ StartCalls = {Len(calls)}
          /\ calls[Len(calls)].answered
          /\ result.execution_id = calls[Len(calls)].name
    /\ pc = "failed" =>
          /\ result.exception = "LambdaFailure"
          /\ \A i \in StartCalls : ~calls[i].answered

\* C8: C8_State always holds, and once a stage has failed no later stage runs:
\* the only step from a failed invocation is a new invocation.
C8_AtMostOnceAndFailFast ==
    /\ []C8_State
    /\ [][pc = "failed" => (pc' = "start" /\ calls' = <<>>)]_vars

\* C8 witness: start_execution was called and raised, and the invocation
\* ended in LambdaFailure.
C8_Witness ==
    /\ pc = "failed"
    /\ StartCalls # {}
    /\ result.exception = "LambdaFailure"

\* The required fields C9 names.
C9_EnvironmentFields ==
    {"bucket_name", "config_suffix", "file_path", "payload_reference_name",
     "step_function_arn", "survey_arn_prefix", "survey_arn_suffix"}
C9_InvocationFields == {"checkpoint", "period", "run_id", "survey"}

\* C9: an invocation whose environment or event lacks a required field makes
\* no external call (no storage read, identity lookup, queue creation or
\* start_execution) and never gets past validation.
C9_NoCallsWhenFieldMissing ==
    (/\ invocations > 0
     /\ \/ ~(C9_EnvironmentFields \subseteq DOMAIN environ)
        \/ ~(C9_InvocationFields \subseteq DOMAIN event))
    => /\ calls = <<>>
       /\ pc \in {"start", "failed"}

\* C9 witness: an invocation without bucket_name has failed with no call made.
C9_Witness ==
    /\ pc = "failed"
    /\ "bucket_name" \notin DOMAIN environ
    /\ calls = <<>>
    /\ result.exception = "LambdaFailure"

\* C10 as stated: with a non-empty checkpoint_file and a checkpoint_id that
\* matches no file_names key, the returned document is the input document.
C10_NoMatchNoChange ==
    \A a \in Applications :
        (/\ NonEmptyFile(a)
         /\ Matches(a) = {}
         /\ (a.checkpoint_id.t = "str" \/ a.config["file_names"].v = <<>>))
        => (a.result.ok /\ a.result.config = a.config)

====
